---- MODULE Spec2Model ----
(***************************************************************************)
(* A model of repack-apk: the OSS Writer (Write, Flush) over the object    *)
(* store's multipart primitives, the retrying store wrapper                *)
(* (StoreWithRetry), the manifest rewrite of changeManifest, the ranged    *)
(* read of the Reader, and main, which runs them in order.                 *)
(*                                                                         *)
(*   Spec          the Writer: Write calls, then Flush, against a store    *)
(*                 whose every call may succeed or fail                    *)
(*   SpecRetry     one call of a StoreWithRetry method                     *)
(*   SpecManifest  changeManifest applied to a manifest and a cpid content *)
(*   SpecReader    ReadAt calls against a store that honours byte ranges   *)
(*   SpecMain      one run of main, from NewReader to the deferred calls   *)
(***************************************************************************)
EXTENDS Integers, Sequences, FiniteSets, TLC

VARIABLES
    \* ---- Writer and store (src/oss.go)
    pc,         \* position of the Writer's caller: "open", the steps of Flush, "returned"
    buffer,     \* Writer.buffer
    offset,     \* Writer.offset (the append offset)
    written,    \* ghost: every byte passed to Write, in call order
    up,         \* Flush's local up (the upload session id; 0 before initiate)
    part1,      \* Flush's local part1 (oss.UploadPart)
    part2,      \* Flush's local part2
    flushRet,   \* the error Flush returned
    sessions,   \* store: upload id -> part number -> content
    dest,       \* store: the destination object
    calls,      \* ghost: the store calls Flush issued, with their outcomes
    writeRet,   \* what the latest Write call returned: [n, err]
    \* ---- StoreWithRetry (src/unnamed/part_001)
    rpc,        \* "idle", "loop" (inside retry's for), "returned"
    method,     \* the StoreWithRetry method called
    bI,         \* backoff.i
    bDelay,     \* backoff.delay, in milliseconds
    err,        \* the method's named result err, assigned by the closure
    resp,       \* the method's named result resp
    ret,        \* what the method returned to its caller (its error)
    attempts,   \* ghost: invocations of the underlying operation
    lastOut,    \* ghost: the underlying operation's latest outcome
    firstOut,   \* ghost: the underlying operation's first outcome
    allTransient, \* ghost: every attempt so far failed with a transient error
    sleeps,     \* ghost: the delays slept, in order
    consumed,   \* the number of bytes read so far from the caller's reader
    sent,       \* ghost: the payload each attempt transmitted, in order
    stored,     \* store: what the successful PutObject or UploadPart left
    \* ---- changeManifest (src/jar.go)
    mpc,        \* "idle", "start", "done"
    inManifest, \* the bytes readManifest returned
    cpid,       \* g.CPIDContent
    mfFile,     \* WorkDir/MANIFEST.MF
    sfFile,     \* WorkDir/<cert>.SF
    rsaFile,    \* WorkDir/<cert>.RSA
    mResult,    \* "ok"; "malformed", "signfail" (a returned error); "panic"
    runs,       \* ghost: the number of times changeManifest has run
    \* ---- Reader.ReadAt (src/oss.go)
    rdDone,     \* ghost: the number of ReadAt calls made
    rdReq,      \* the latest call's arguments: [off, len] (len is len(buf))
    rdRange,    \* the byte range the call asked the store for: [lo, hi]
    rdBody,     \* the store's answer: [err, data, readErr]
    rdBuf,      \* the caller's buf after the call
    rdRet,      \* what the call returned: [n, err]
    \* ---- main (src/unnamed/part_002) and the zip appender it drives
    mainPc,     \* the statement main is at; "idle" outside SpecMain
    exitCode,   \* -1 while running; the process's exit status afterwards
    failed,     \* ghost: the step whose failure was reported ("none" if none was)
    pending,    \* the bytes the zip appender has buffered and not yet written
    archive,    \* ghost: the files added to the archive: [name, data]
    deferred,   \* main's stack of deferred calls, the next to run first
    flushes,    \* ghost: the number of times Flush was invoked
    lateWrites  \* ghost: the number of Write calls made once Flush had started

writerVars == <<pc, buffer, offset, written, up, part1, part2, flushRet,
                sessions, dest, calls, writeRet>>
retryVars == <<rpc, method, bI, bDelay, err, resp, ret, attempts, lastOut,
               firstOut, allTransient, sleeps, consumed, sent, stored>>
manifestVars == <<mpc, inManifest, cpid, mfFile, sfFile, rsaFile, mResult, runs>>
readerVars == <<rdDone, rdReq, rdRange, rdBody, rdBuf, rdRet>>
mainVars == <<mainPc, exitCode, failed, pending, archive, deferred, flushes,
              lateWrites>>
vars == <<writerVars, retryVars, manifestVars, readerVars, mainVars>>

----------------------------------------------------------------------------
(* Errors.  An error value is a record: svc says it is an oss.ServiceError, *)
(* status is its StatusCode, has503 says its Error() text contains "503",   *)
(* at tells the call (or attempt) that produced it, so that two errors of   *)
(* the same kind from different calls are different values.                 *)

Nil == [svc |-> FALSE, status |-> 0, has503 |-> FALSE, at |-> 0]

\* The kinds of error a store call can produce.  A ServiceError's text holds
\* "StatusCode=<status>", so a 503 service error always has has503; any error
\* text may hold "503" elsewhere (a request id, a host name).
ErrorKinds ==
    { [svc |-> TRUE,  status |-> 503, has503 |-> TRUE],
      [svc |-> TRUE,  status |-> 404, has503 |-> FALSE],
      [svc |-> TRUE,  status |-> 404, has503 |-> TRUE],
      [svc |-> FALSE, status |-> 0,   has503 |-> TRUE],
      [svc |-> FALSE, status |-> 0,   has503 |-> FALSE] }

ErrorsAt(n) ==
    { [svc |-> k.svc, status |-> k.status, has503 |-> k.has503, at |-> n] :
        k \in ErrorKinds }

\* The outcomes of the n-th call: success (Nil) or an error.
Outcomes(n) == {Nil} \cup ErrorsAt(n)

----------------------------------------------------------------------------
(* The Writer and the store.                                               *)

SrcLen == 3
MaxWrites == 2

\* The source object: SrcLen distinct bytes.
Src == [i \in 1..SrcLen |-> i]

\* What one Write call may pass.
WriteInputs == { <<>>, <<101>>, <<102, 103>> }

NoPart == [PartNumber |-> 0, ETag |-> <<>>]
Absent == [exists |-> FALSE, data |-> <<>>]
NoReturn == [n |-> 0, err |-> Nil]

RECURSIVE Flatten(_)
\* The concatenation of a sequence of byte sequences.
Flatten(ss) == IF ss = <<>> THEN <<>> ELSE Head(ss) \o Flatten(Tail(ss))

\* A record of one store call, kept in calls.
Call(op, id, start, size, num, data, out) ==
    [op |-> op, up |-> id, start |-> start, size |-> size, num |-> num,
     data |-> data, err |-> out]

\* The store's InvalidPart answer to a completion that lists a part the
\* session does not hold.
InvalidPart(n) == [svc |-> TRUE, status |-> 400, has503 |-> FALSE, at |-> n]

\* The session with part num (re)written: a part is overwritten by its number.
PutPart(session, num, data) ==
    {p \in session : p.PartNumber # num} \cup {[PartNumber |-> num, data |-> data]}

\* Whether the session holds the part a handle names.
HoldsPart(session, h) ==
    \E p \in session : p.PartNumber = h.PartNumber /\ p.data = h.ETag

RECURSIVE Assemble(_, _)
\* The object a completion assembles from the listed parts.
Assemble(session, hs) ==
    IF hs = <<>> THEN <<>>
    ELSE (CHOOSE p \in session : p.PartNumber = Head(hs).PartNumber).data
             \o Assemble(session, Tail(hs))

WriterInit ==
    /\ pc = "open"
    /\ buffer = <<>>
    /\ offset \in 0..SrcLen
    /\ written = <<>>
    /\ up = 0
    /\ part1 = NoPart
    /\ part2 = NoPart
    /\ flushRet = Nil
    /\ sessions = <<>>
    /\ dest = Absent
    /\ calls = <<>>
    /\ writeRet = NoReturn

\* WriteResult keeping only the latest input in the buffer.
WriteResultOverwrite(b, buf) == [buffer |-> buf, n |-> Len(buf), err |-> Nil]

\* Writer.Write on buffer b with input buf: w.buffer = append(w.buffer, buf...)
\* and return len(buf), nil.
WriteResult(b, buf) == [buffer |-> b \o buf, n |-> Len(buf), err |-> Nil]

\* One call Write(buf), by whoever holds the Writer.
WriteCall(buf) ==
    LET r == WriteResult(buffer, buf)
    IN /\ buffer' = r.buffer
       /\ writeRet' = [n |-> r.n, err |-> r.err]
       /\ written' = Append(written, buf)

\* Writer.Write: append, never fail.
Write ==
    /\ pc = "open"
    /\ Len(written) < MaxWrites
    /\ \E buf \in WriteInputs : WriteCall(buf)
    /\ UNCHANGED <<pc, offset, up, part1, part2, flushRet, sessions, dest, calls>>
    /\ UNCHANGED <<retryVars, manifestVars, readerVars, mainVars>>

\* Whether a store call that answered out took effect in the store: a call
\* that answers nil did; one that answers an error may have (the request was
\* carried out and its answer lost) or may not.
Landings(out) == IF out = Nil THEN {TRUE} ELSE BOOLEAN

\* Flush, step 1: InitiateMultipartUpload(w.Object); an error is returned.
FlushInitiate ==
    /\ pc = "open"
    /\ \E out \in Outcomes(Len(calls) + 1) : \E landed \in Landings(out) :
         /\ calls' = Append(calls, Call("InitiateMultipartUpload",
                                        Len(sessions) + 1, 0, 0, 0, <<>>, out))
         /\ sessions' = IF landed THEN Append(sessions, {}) ELSE sessions
         /\ IF out = Nil
            THEN /\ up' = Len(sessions) + 1
                 /\ pc' = "copy"
                 /\ UNCHANGED flushRet
            ELSE /\ flushRet' = out
                 /\ pc' = "returned"
                 /\ UNCHANGED up
    /\ UNCHANGED <<buffer, offset, written, writeRet, part1, part2, dest>>
    /\ UNCHANGED <<retryVars, manifestVars, readerVars, mainVars>>

\* CopyRange with the last byte of the prefix left out.
CopyRangeShort(off) == [start |-> 0, size |-> IF off > 0 THEN off - 1 ELSE 0, num |-> 1]

\* The copy request of Flush: UploadPartCopy(up, src, 0, w.offset, 1).
CopyRange(off) == [start |-> 0, size |-> off, num |-> 1]

\* CopyFailure reporting an unset error value instead of the part's error.
CopyFailureUnset(e) == Nil

\* What Flush returns when the copy part failed with e.
CopyFailure(e) == e

\* Flush, step 2: the one copy part; an error is returned.
FlushCopy ==
    /\ pc = "copy"
    /\ LET r == CopyRange(offset)
           data == SubSeq(Src, r.start + 1, r.start + r.size)
       IN \E out \in Outcomes(Len(calls) + 1) : \E landed \in Landings(out) :
            /\ calls' = Append(calls, Call("UploadPartCopy", up, r.start, r.size, r.num,
                                           <<>>, out))
            /\ sessions' = IF landed
                           THEN [sessions EXCEPT ![up] = PutPart(@, r.num, data)]
                           ELSE sessions
            /\ IF out = Nil
               THEN /\ part1' = [PartNumber |-> r.num, ETag |-> data]
                    /\ pc' = "tail"
                    /\ UNCHANGED flushRet
               ELSE /\ flushRet' = CopyFailure(out)
                    /\ pc' = "returned"
                    /\ UNCHANGED part1
    /\ UNCHANGED <<buffer, offset, written, writeRet, up, part2, dest>>
    /\ UNCHANGED <<retryVars, manifestVars, readerVars, mainVars>>

\* TailPart numbered as the copy part is.
TailPartAsFirst(buf) == [data |-> buf, size |-> Len(buf), num |-> 1]

\* The tail request of Flush: UploadPart(up, reader over w.buffer, len(w.buffer), 2).
TailPart(buf) == [data |-> buf, size |-> Len(buf), num |-> 2]

\* TailFailed with the error check dropped.
TailFailedIgnored(e) == FALSE

\* Whether Flush returns after the tail upload answered e.
TailFailed(e) == e # Nil

\* Flush, step 3: the buffered bytes as part 2; an error is returned.
FlushTail ==
    /\ pc = "tail"
    /\ LET r == TailPart(buffer)
           data == SubSeq(r.data, 1, r.size)
       IN \E out \in Outcomes(Len(calls) + 1) : \E landed \in Landings(out) :
            /\ calls' = Append(calls, Call("UploadPart", up, 0, r.size, r.num, r.data, out))
            /\ sessions' = IF landed
                           THEN [sessions EXCEPT ![up] = PutPart(@, r.num, data)]
                           ELSE sessions
            /\ part2' = IF out = Nil THEN [PartNumber |-> r.num, ETag |-> data] ELSE part2
            /\ IF TailFailed(out)
               THEN /\ flushRet' = out
                    /\ pc' = "returned"
               ELSE /\ pc' = "complete"
                    /\ UNCHANGED flushRet
    /\ UNCHANGED <<buffer, offset, written, writeRet, up, part1, dest>>
    /\ UNCHANGED <<retryVars, manifestVars, readerVars, mainVars>>

\* CompleteParts with the tail part left out of the list.
CompletePartsCopyOnly(p1, p2) == <<p1>>

\* The part list Flush completes with.
CompleteParts(p1, p2) == <<p1, p2>>

\* Flush, step 4: CompleteMultipartUpload(up, {part1, part2}); its error is
\* Flush's result.  The store refuses a list naming a part it does not hold.
FlushComplete ==
    /\ pc = "complete"
    /\ LET hs == CompleteParts(part1, part2)
           n == Len(calls) + 1
           valid == \A i \in 1..Len(hs) : HoldsPart(sessions[up], hs[i])
       IN \E o \in Outcomes(n) : \E l \in Landings(o) :
            LET out == IF valid THEN o ELSE InvalidPart(n)
                landed == valid /\ l
            IN /\ calls' = Append(calls, Call("CompleteMultipartUpload", up, 0, 0, Len(hs),
                                              [i \in 1..Len(hs) |-> hs[i].PartNumber], out))
               /\ dest' = IF landed
                          THEN [exists |-> TRUE, data |-> Assemble(sessions[up], hs)]
                          ELSE dest
               /\ flushRet' = out
               /\ pc' = "returned"
    /\ UNCHANGED <<buffer, offset, written, writeRet, up, part1, part2, sessions>>
    /\ UNCHANGED <<retryVars, manifestVars, readerVars, mainVars>>

----------------------------------------------------------------------------
(* StoreWithRetry.                                                          *)

\* newBackoff's fields: delay 50ms, max 8.
InitialDelay == 50
max == 8

\* The seven methods of Store.
Methods == { "GetObject", "GetObjectDetailedMeta", "PutObject",
             "InitiateMultipartUpload", "UploadPartCopy", "UploadPart",
             "CompleteMultipartUpload" }

PayloadLen == 2

\* The bytes of the reader a caller passes to PutObject or UploadPart.
Payload == [i \in 1..PayloadLen |-> 500 + i]

\* The methods that take the caller's reader.
ReaderMethods == { "PutObject", "UploadPart" }

\* How many bytes an attempt may read from a reader with left bytes unread:
\* all of them when it succeeds; when it fails, any number, the failure
\* coming before, while or after the body is sent.
Reads(out, left) == IF out = Nil THEN {left} ELSE 0..left

\* Exhausted with the comparison off by one.
ExhaustedLate(i, m) == i > m

\* backoff.next's guard: the budget is spent.
Exhausted(i, m) == i >= m

\* backoff.next: 0 when the budget is spent, else count, double and return
\* the doubled delay.
next(i, delay) ==
    IF Exhausted(i, max)
    THEN [i |-> i, delay |-> delay, result |-> 0]
    ELSE [i |-> i + 1, delay |-> delay * 2, result |-> delay * 2]

\* retry's first test: a structured service error with status 503.
IsService503(e) == e.svc /\ e.status = 503

\* Contains503 with the text test left out.
Contains503Never(e) == FALSE

\* retry's second test: the error text contains "503".
Contains503(e) == e.has503

\* MethodReturn of a closure that shadows err: the named result stays nil.
MethodReturnShadowed(closureErr, retryErr) == Nil

\* What a method hands back: its named result err, which the closure set at
\* every attempt (retry's own result is dropped).
MethodReturn(closureErr, retryErr) == closureErr

RetryIdle ==
    /\ rpc = "idle"
    /\ method = "none"
    /\ bI = 0
    /\ bDelay = 0
    /\ err = Nil
    /\ resp = 0
    /\ ret = Nil
    /\ attempts = 0
    /\ lastOut = Nil
    /\ firstOut = Nil
    /\ allTransient = TRUE
    /\ sleeps = <<>>
    /\ consumed = 0
    /\ sent = <<>>
    /\ stored = Absent

\* A caller invokes one of the methods: retry starts with a new backoff.
RetryCall ==
    /\ rpc = "idle"
    /\ \E m \in Methods : method' = m
    /\ bI' = 0
    /\ bDelay' = InitialDelay
    /\ rpc' = "loop"
    /\ UNCHANGED <<err, resp, ret, attempts, lastOut, firstOut, allTransient, sleeps,
                   consumed, sent, stored>>
    /\ UNCHANGED <<writerVars, manifestVars, readerVars, mainVars>>

\* One round of retry's loop: f() calls the underlying operation and stores
\* its results in the method's named results; nil returns, a transient error
\* asks the backoff for a delay and sleeps (or returns when there is none),
\* any other error returns.
RetryAttempt ==
    /\ rpc = "loop"
    /\ \E out \in Outcomes(attempts + 1) :
         LET transient == IsService503(out) \/ Contains503(out)
             nx == next(bI, bDelay)
             returns == \/ out = Nil
                        \/ ~transient
                        \/ nx.result = 0
         IN /\ attempts' = attempts + 1
            /\ lastOut' = out
            /\ firstOut' = IF attempts = 0 THEN out ELSE firstOut
            /\ allTransient' = (allTransient /\ out # Nil /\ transient)
            /\ err' = out
            /\ resp' = IF out = Nil /\ method # "PutObject" THEN attempts + 1 ELSE 0
            /\ IF out # Nil /\ transient
               THEN /\ bI' = nx.i
                    /\ bDelay' = nx.delay
               ELSE UNCHANGED <<bI, bDelay>>
            /\ IF returns
               THEN /\ ret' = MethodReturn(out, out)
                    /\ rpc' = "returned"
                    /\ UNCHANGED sleeps
               ELSE /\ sleeps' = Append(sleeps, nx.result)
                    /\ UNCHANGED <<ret, rpc>>
            /\ IF method \in ReaderMethods
               THEN \E k \in Reads(out, PayloadLen - consumed) :
                      LET body == SubSeq(Payload, consumed + 1, consumed + k)
                      IN /\ consumed' = consumed + k
                         /\ sent' = Append(sent, body)
                         /\ stored' = IF out = Nil
                                       THEN [exists |-> TRUE, data |-> body]
                                       ELSE stored
               ELSE UNCHANGED <<consumed, sent, stored>>
    /\ UNCHANGED method
    /\ UNCHANGED <<writerVars, manifestVars, readerVars, mainVars>>

----------------------------------------------------------------------------
(* changeManifest.                                                          *)

\* A byte of a file: c is the character; h is empty but in the first
\* character of a digest, where it holds the message the digest was taken of
\* (a digest is modelled as free of collisions).
B(ch) == [c |-> ch, h |-> <<>>]

\* The bytes of a text, given as the tuple of its characters.
S(chars) == [i \in DOMAIN chars |-> B(chars[i])]

Rep(ch, n) == [i \in 1..n |-> B(ch)]

CRLF == S(<<"CR", "LF">>)

LineWidth == 70

\* The length of a base64 text of a SHA-1 digest (20 bytes).
DigestLen == 28

\* sha1Sum: the base64 text of the SHA-1 digest of msg.
sha1Sum(msg) == <<[c |-> "#", h |-> msg]>> \o Rep("=", DigestLen - 1)

\* strings.Index: the 0-based place of the first sub in s, or -1.
Index(s, sub) ==
    LET at == {i \in 0..(Len(s) - Len(sub)) : SubSeq(s, i + 1, i + Len(sub)) = sub}
    IN IF at = {} THEN -1 ELSE CHOOSE i \in at : \A j \in at : i <= j

\* s[from:] of Go.
From(s, from) == SubSeq(s, from + 1, Len(s))

\* strings.HasPrefix.
HasPrefix(s, prefix) == Len(s) >= Len(prefix) /\ SubSeq(s, 1, Len(prefix)) = prefix

RECURSIVE Split(_, _)
\* strings.Split: the pieces of s between the seps (one piece when there is none).
Split(s, sep) ==
    LET i == Index(s, sep)
    IN IF i < 0 THEN <<s>>
       ELSE <<SubSeq(s, 1, i)>> \o Split(From(s, i + Len(sep)), sep)

NamePrefix == S(<<"N", "a", "m", "e", ":", " ">>)
DigestPrefix == S(<<"S", "H", "A", "1", "-", "D", "i", "g", "e", "s", "t", ":", " ">>)
CPIDPath == S(<<"c", "p", "i", "d">>)
SFHeader == S(<<"S", "i", "g", "n", "a", "t", "u", "r", "e", "-", "V", "e", "r", "s", "i", "o", "n", ":", " ", "1", ".", "0">>) \o CRLF
ManifestDigestPrefix == S(<<"S", "H", "A", "1", "-", "D", "i", "g", "e", "s", "t", "-", "M", "a", "n", "i", "f", "e", "s", "t", ":", " ">>)

cpidNameLine == NamePrefix \o CPIDPath \o CRLF

\* The test of the index of cpidNameLine: the entry exists.
cpidFound(cpidIndex) == cpidIndex > 0

\* changeManifest, the manifest rewrite: the digest line of the cpid entry
\* found is replaced, or the entry is added at the end; err when the line
\* after the name line has no CRLF.
RewriteManifest(manifest, digest) ==
    LET cpidIndex == Index(manifest, cpidNameLine)
        digestLine == DigestPrefix \o digest \o CRLF
    IN IF cpidFound(cpidIndex)
       THEN LET beforePart == SubSeq(manifest, 1, cpidIndex)
                rest == From(manifest, cpidIndex + Len(cpidNameLine))
                hashLineEnd == Index(rest, CRLF)
            IN IF hashLineEnd < 0
               THEN [err |-> TRUE, manifest |-> manifest]
               ELSE [err |-> FALSE,
                     manifest |-> beforePart \o cpidNameLine \o digestLine
                                    \o From(rest, hashLineEnd + 2)]
       ELSE [err |-> FALSE,
             manifest |-> manifest \o cpidNameLine \o digestLine \o CRLF]

\* The message changeManifest digests for an entry.
EntryMessage(nameLine, hashLine) == nameLine \o CRLF \o hashLine \o CRLF \o CRLF

\* The lines changeManifest writes to .SF for a name line.
FoldName(nameLine) ==
    IF Len(nameLine) > LineWidth
    THEN SubSeq(nameLine, 1, LineWidth) \o CRLF
             \o S(<<" ">>) \o From(nameLine, 70) \o CRLF
    ELSE nameLine \o CRLF

\* A line read with one continuation line joined to it: when line is
\* LineWidth long or more, entries[i] is read and, if it begins with a space,
\* joined.  i is 0-based; oob says entries[i] was read out of range.
Joined(entries, line, i) ==
    IF Len(line) >= LineWidth
    THEN IF i >= Len(entries)
         THEN [oob |-> TRUE, line |-> line, i |-> i]
         ELSE IF HasPrefix(entries[i + 1], S(<<" ">>))
              THEN [oob |-> FALSE, line |-> line \o From(entries[i + 1], 1), i |-> i + 1]
              ELSE [oob |-> FALSE, line |-> line, i |-> i]
    ELSE [oob |-> FALSE, line |-> line, i |-> i]

RECURSIVE SFLoop(_, _, _)
\* changeManifest, the loop over the lines of the manifest from line i on
\* (0-based), out being the bytes written to .SF so far: for each line that
\* begins with "Name: ", the name line and the hash line are read (each with
\* one continuation), digested and written.  panic says a line was read out
\* of range; the bytes written before it stay in the file.
SFLoop(entries, i, out) ==
    IF i >= Len(entries) THEN [panic |-> FALSE, out |-> out]
    ELSE IF ~HasPrefix(entries[i + 1], NamePrefix) THEN SFLoop(entries, i + 1, out)
    ELSE LET n == Joined(entries, entries[i + 1], i + 1)
         IN IF n.oob \/ n.i >= Len(entries) THEN [panic |-> TRUE, out |-> out]
            ELSE LET h == Joined(entries, entries[n.i + 1], n.i + 1)
                 IN IF h.oob THEN [panic |-> TRUE, out |-> out]
                    ELSE SFLoop(entries, h.i + 1,
                                out \o FoldName(n.line)
                                    \o DigestPrefix
                                    \o sha1Sum(EntryMessage(n.line, h.line)) \o CRLF
                                    \o CRLF)

\* ManifestDigest taken of the manifest as it was read.
ManifestDigestOfRead(manifest) == sha1Sum(inManifest)

\* mfDigest := sha1Sum([]byte(manifest)), of the manifest just written.
ManifestDigest(manifest) == sha1Sum(manifest)

\* The .SF file changeManifest writes for a manifest.
WriteSF(manifest) ==
    SFLoop(Split(manifest, CRLF), 0,
           SFHeader \o ManifestDigestPrefix \o ManifestDigest(manifest) \o CRLF \o CRLF)

\* signSF: the signature block over the content of the .SF file.
signSF(sfContent) == <<[c |-> "RSA", h |-> sfContent]>>

MaxBlocks == 3

\* The length of the long entry name's line, "Name: " included: above
\* LineWidth, so that the manifest holds it folded.
LongNameLen == 76

\* The contents the cpid file may have.
CpidContents == { S(<<"1">>), S(<<"2">>) }

MainSection ==
    S(<<"M", "a", "n", "i", "f", "e", "s", "t", "-", "V", "e", "r", "s", "i", "o", "n",
        ":", " ", "1", ".", "0">>) \o CRLF \o CRLF

\* An entry of a file a.
EntryA ==
    NamePrefix \o S(<<"a">>) \o CRLF
        \o DigestPrefix \o sha1Sum(S(<<"A">>)) \o CRLF \o CRLF

\* The cpid entry an earlier run with content "1" left.
EntryCpid == cpidNameLine \o DigestPrefix \o sha1Sum(S(<<"1">>)) \o CRLF \o CRLF

LongNameLine == NamePrefix \o Rep("b", LongNameLen - Len(NamePrefix))

\* An entry whose name line is longer than LineWidth, folded as a manifest
\* writer folds it: LineWidth characters, then a continuation line.
EntryLong ==
    SubSeq(LongNameLine, 1, LineWidth) \o CRLF
        \o S(<<" ">>) \o From(LongNameLine, LineWidth) \o CRLF
        \o DigestPrefix \o sha1Sum(S(<<"B">>)) \o CRLF \o CRLF

\* The length of the wide entry name's line, "Name: " included: twice
\* LineWidth.
WideNameLen == 140

\* An entry whose name line is twice LineWidth long and stands in the
\* manifest as one line, as a manifest writer that does not fold leaves it.
EntryWide ==
    NamePrefix \o Rep("w", WideNameLen - Len(NamePrefix)) \o CRLF
        \o DigestPrefix \o sha1Sum(S(<<"W">>)) \o CRLF \o CRLF

\* A name line cut off before its line end, and a cpid name line with
\* nothing after it: what a truncated manifest ends with.
NameCut == NamePrefix \o S(<<"z">>)

Blocks ==
    { MainSection, EntryA, EntryCpid, EntryLong, EntryWide, NameCut, cpidNameLine }

\* The manifests read: every sequence of at most MaxBlocks blocks, the empty
\* manifest included.
Manifests ==
    { Flatten(bs) : bs \in UNION { [1..n -> Blocks] : n \in 0..MaxBlocks } }

ManifestInit ==
    /\ mpc = "start"
    /\ inManifest \in Manifests
    /\ cpid \in CpidContents
    /\ mfFile = <<>>
    /\ sfFile = <<>>
    /\ rsaFile = <<>>
    /\ mResult = "none"
    /\ runs = 0

ManifestIdle ==
    /\ mpc = "idle"
    /\ inManifest = <<>>
    /\ cpid = <<>>
    /\ mfFile = <<>>
    /\ sfFile = <<>>
    /\ rsaFile = <<>>
    /\ mResult = "none"
    /\ runs = 0

\* changeManifest(r): rewrite the manifest, write MANIFEST.MF, write .SF,
\* sign it and write .RSA.  signSF fails when the key cannot be read.
ChangeManifest ==
    /\ mpc = "start"
    /\ mpc' = "done"
    /\ runs' = runs + 1
    /\ LET m == RewriteManifest(inManifest, sha1Sum(cpid))
           sf == WriteSF(m.manifest)
       IN IF m.err
          THEN /\ mResult' = "malformed"
               /\ UNCHANGED <<mfFile, sfFile, rsaFile>>
          ELSE /\ mfFile' = m.manifest
               /\ sfFile' = sf.out
               /\ IF sf.panic
                  THEN /\ mResult' = "panic"
                       /\ UNCHANGED rsaFile
                  ELSE \E keyOk \in BOOLEAN :
                         IF keyOk
                         THEN /\ rsaFile' = signSF(sf.out)
                              /\ mResult' = "ok"
                         ELSE /\ mResult' = "signfail"
                              /\ UNCHANGED rsaFile
    /\ UNCHANGED <<inManifest, cpid>>
    /\ UNCHANGED <<writerVars, retryVars, readerVars, mainVars>>

MaxRuns == 3

\* The program is run again on the archive a successful run left: its
\* readManifest returns the manifest that run wrote.  The working directory
\* still holds that run's files.
Rerun ==
    /\ mpc = "done"
    /\ mResult = "ok"
    /\ runs < MaxRuns
    /\ mpc' = "start"
    /\ inManifest' = mfFile
    /\ mResult' = "none"
    /\ UNCHANGED <<cpid, mfFile, sfFile, rsaFile, runs>>
    /\ UNCHANGED <<writerVars, retryVars, readerVars, mainVars>>

WriterIdle ==
    /\ pc = "idle"
    /\ buffer = <<>>
    /\ offset = 0
    /\ written = <<>>
    /\ up = 0
    /\ part1 = NoPart
    /\ part2 = NoPart
    /\ flushRet = Nil
    /\ sessions = <<>>
    /\ dest = Absent
    /\ calls = <<>>
    /\ writeRet = NoReturn

----------------------------------------------------------------------------
(* Reader.ReadAt.                                                           *)

MaxBufLen == 3
MaxReads == 2

\* The caller's buf before a call: len bytes, none of them a source byte.
Blank(len) == [i \in 1..len |-> 0]

Min(a, b) == IF a < b THEN a ELSE b

\* The range ReadAt asks for: oss.Range(off, off+int64(len(buf))-1).
ReadRange(off, len) == [lo |-> off, hi |-> off + len - 1]

\* The bytes of the source object inside an inclusive range.
StoreRange(r) == SubSeq(Src, r.lo + 1, Min(r.hi + 1, SrcLen))

\* copy(buf, all): the leading bytes of buf overwritten, as many as both hold.
Copy(buf, all) ==
    [n |-> Min(Len(buf), Len(all)),
     buf |-> [i \in 1..Len(buf) |-> IF i <= Len(all) THEN all[i] ELSE buf[i]]]

\* ShortRead accepting a buffer that was not filled.
ShortReadTolerated(copied, len) == FALSE

\* Whether ReadAt reports a short read: copy(buf, all) != len(buf).
ShortRead(copied, len) == copied # len

\* The error ReadAt makes for a short read.
ExpectBytes(n) == [svc |-> FALSE, status |-> 0, has503 |-> FALSE, at |-> n]

ReaderIdle ==
    /\ rdDone = 0
    /\ rdReq = [off |-> 0, len |-> 0]
    /\ rdRange = [lo |-> 0, hi |-> 0]
    /\ rdBody = [err |-> Nil, data |-> <<>>, readErr |-> Nil]
    /\ rdBuf = <<>>
    /\ rdRet = NoReturn

\* Reader.ReadAt(buf, off).  The store answers the ranged GetObject with an
\* error, or with a body that holds the bytes of the range or only the first
\* of them; reading the body may fail.
ReadAt ==
    /\ rdDone < MaxReads
    /\ rdDone' = rdDone + 1
    /\ \E off \in 0..SrcLen, len \in 0..MaxBufLen :
         LET r == ReadRange(off, len)
             full == StoreRange(r)
         IN /\ rdReq' = [off |-> off, len |-> len]
            /\ rdRange' = r
            /\ \E out \in Outcomes(rdDone + 1) :
                 IF out # Nil
                 THEN /\ rdBody' = [err |-> out, data |-> <<>>, readErr |-> Nil]
                      /\ rdBuf' = Blank(len)
                      /\ rdRet' = [n |-> 0, err |-> out]
                 ELSE \E k \in 0..Len(full), readErr \in Outcomes(rdDone + 1) :
                        LET all == SubSeq(full, 1, k)
                            c == Copy(Blank(len), all)
                        IN /\ rdBody' = [err |-> Nil, data |-> all, readErr |-> readErr]
                           /\ IF readErr # Nil
                              THEN /\ rdBuf' = Blank(len)
                                   /\ rdRet' = [n |-> 0, err |-> readErr]
                              ELSE /\ rdBuf' = c.buf
                                   /\ rdRet' = IF ShortRead(c.n, len)
                                               THEN [n |-> 0, err |-> ExpectBytes(rdDone + 1)]
                                               ELSE [n |-> len, err |-> Nil]
    /\ UNCHANGED <<writerVars, retryVars, manifestVars, mainVars>>

----------------------------------------------------------------------------
(* main, and the zip appender between it and the Writer.                    *)

ManifestPath == "META-INF/MANIFEST.MF"
SFPath == "META-INF/CERT.SF"
RSAPath == "META-INF/CERT.RSA"

\* What the appender writes for the n-th added file (its header and its
\* compressed data), and for the central directory it emits when closed.
EntryBytes(n) == <<200 + n>>
CentralDirectory == <<300>>

\* The manifests main is run on.
MainManifests ==
    { Flatten(bs) : bs \in { <<>>, <<MainSection, EntryA>>, <<MainSection, EntryCpid>>,
                             <<MainSection, EntryLong>>, <<MainSection, cpidNameLine>>,
                             <<MainSection, NameCut>> } }

MainIdle ==
    /\ mainPc = "idle"
    /\ exitCode = -1
    /\ failed = "none"
    /\ pending = <<>>
    /\ archive = <<>>
    /\ deferred = <<>>
    /\ flushes = 0
    /\ lateWrites = 0

MainInit ==
    /\ mainPc = "NewReader"
    /\ exitCode = -1
    /\ failed = "none"
    /\ pending = <<>>
    /\ archive = <<>>
    /\ deferred = <<>>
    /\ flushes = 0
    /\ lateWrites = 0

\* perror: log and os.Exit(1); no deferred call runs.
Perror(step) ==
    /\ mainPc' = "exited"
    /\ exitCode' = 1
    /\ failed' = step
    /\ UNCHANGED <<pending, archive, deferred, flushes, lateWrites>>

\* main goes on to the statement at.
Goto(at) ==
    /\ mainPc' = at
    /\ UNCHANGED <<exitCode, failed, pending, archive, deferred, flushes, lateWrites>>

\* ossReader, err := NewReader(...)
MainNewReader ==
    /\ mainPc = "NewReader"
    /\ \E ok \in BOOLEAN : IF ok THEN Goto("Size") ELSE Perror("NewReader")
    /\ UNCHANGED <<writerVars, retryVars, manifestVars, readerVars>>

\* objectSize, err := ossReader.Size()
MainSize ==
    /\ mainPc = "Size"
    /\ \E ok \in BOOLEAN : IF ok THEN Goto("zip.NewReader") ELSE Perror("Size")
    /\ UNCHANGED <<writerVars, retryVars, manifestVars, readerVars>>

\* zipReader, err := zip.NewReader(ossReader, objectSize)
MainZipReader ==
    /\ mainPc = "zip.NewReader"
    /\ \E ok \in BOOLEAN : IF ok THEN Goto("changeManifest") ELSE Perror("zip.NewReader")
    /\ UNCHANGED <<writerVars, retryVars, manifestVars, readerVars>>

\* err = changeManifest(zipReader): the call itself.
MainChangeManifest ==
    /\ mainPc = "changeManifest"
    /\ ChangeManifest

\* if err != nil { perror(...) }; a panic of changeManifest ends the process
\* with status 2, no call being deferred yet.
MainChangeManifestReturn ==
    /\ mainPc = "changeManifest"
    /\ mpc = "done"
    /\ CASE mResult = "ok" -> Goto("NewWriter")
         [] mResult = "panic" ->
                /\ mainPc' = "exited"
                /\ exitCode' = 2
                /\ failed' = "changeManifest"
                /\ UNCHANGED <<pending, archive, deferred, flushes, lateWrites>>
         [] OTHER -> Perror("changeManifest")
    /\ UNCHANGED <<writerVars, retryVars, manifestVars, readerVars>>

\* DeferStack with the two defer statements in the other order.
DeferStackFlushFirst == <<"Flush", "Close">>

\* The deferred calls once main has run both defer statements, the one
\* deferred last on top: defer func() { Flush } and then defer writer.Close().
DeferStack == <<"Close", "Flush">>

\* ossWriter, err := NewWriter(..., zipReader.AppendOffset()), the deferred
\* Flush, writer := zipReader.Append(ossWriter), the deferred Close.
MainNewWriter ==
    /\ mainPc = "NewWriter"
    /\ \E ok \in BOOLEAN :
         IF ok
         THEN /\ pc' = "open"
              /\ offset' \in 0..SrcLen
              /\ mainPc' = "copyCPID"
              /\ deferred' = DeferStack
              /\ UNCHANGED <<exitCode, failed, pending, archive, flushes, lateWrites>>
         ELSE /\ Perror("NewWriter")
              /\ UNCHANGED <<pc, offset>>
    /\ UNCHANGED <<buffer, written, up, part1, part2, flushRet, sessions, dest,
                   calls, writeRet>>
    /\ UNCHANGED <<retryVars, manifestVars, readerVars>>

\* The appender takes bytes: it keeps them buffered, or its buffer fills and
\* it writes everything it holds to the Writer.
Emit(bytes) ==
    \/ /\ pending' = pending \o bytes
       /\ UNCHANGED <<buffer, written, writeRet, lateWrites>>
    \/ /\ pending' = <<>>
       /\ WriteCall(pending \o bytes)
       /\ lateWrites' = lateWrites + (IF flushes > 0 THEN 1 ELSE 0)

\* CopyFile losing the last byte of the file.
CopyFileTruncated(content) == SubSeq(content, 1, Len(content) - 1)

\* What copyFile gives the archive entry for a file holding content:
\* io.Copy(df, sf).
CopyFile(content) == content

\* copyCPID(writer): copyContent(w, CPIDPath, g.CPIDContent).
MainCopyCPID ==
    /\ mainPc = "copyCPID"
    /\ \E ok \in BOOLEAN :
         IF ok
         THEN /\ archive' = Append(archive, [name |-> "cpid", data |-> cpid])
              /\ Emit(EntryBytes(Len(archive) + 1))
              /\ mainPc' = "copyMeta"
              /\ UNCHANGED <<exitCode, failed, deferred, flushes>>
         ELSE /\ Perror("copyCPID")
              /\ UNCHANGED <<buffer, written, writeRet>>
    /\ UNCHANGED <<pc, offset, up, part1, part2, flushRet, sessions, dest, calls>>
    /\ UNCHANGED <<retryVars, manifestVars, readerVars>>

\* The three files copyMeta copies, in order.
MetaFiles ==
    << [name |-> ManifestPath, data |-> CopyFile(mfFile)],
       [name |-> SFPath, data |-> CopyFile(sfFile)],
       [name |-> RSAPath, data |-> CopyFile(rsaFile)] >>

\* copyMeta(writer): three copyFile calls, returning at the first that fails.
\* main returns after it.
MainCopyMeta ==
    /\ mainPc = "copyMeta"
    /\ \E k \in 0..Len(MetaFiles) :
         IF k = Len(MetaFiles)
         THEN /\ archive' = archive \o MetaFiles
              /\ Emit([i \in 1..k |-> EntryBytes(Len(archive) + i)[1]])
              /\ mainPc' = "deferred"
              /\ UNCHANGED <<exitCode, failed, deferred, flushes>>
         ELSE /\ mainPc' = "exited"
              /\ exitCode' = 1
              /\ failed' = "copyMeta"
              /\ archive' = archive \o SubSeq(MetaFiles, 1, k)
              /\ pending' = pending \o [i \in 1..k |-> EntryBytes(Len(archive) + i)[1]]
              /\ UNCHANGED <<buffer, written, writeRet, deferred, flushes, lateWrites>>
    /\ UNCHANGED <<pc, offset, up, part1, part2, flushRet, sessions, dest, calls>>
    /\ UNCHANGED <<retryVars, manifestVars, readerVars>>

\* Whether main stops when the deferred writer.Close() returned an error:
\* defer writer.Close() drops what Close returns.
CloseAborts(closeErr) == FALSE

\* The deferred writer.Close(): the appender writes what it holds and the
\* central directory; if it fails it may have written nothing.
MainClose ==
    /\ mainPc = "deferred"
    /\ deferred # <<>>
    /\ Head(deferred) = "Close"
    /\ \E closeErr \in BOOLEAN :
         /\ IF closeErr
            THEN \/ UNCHANGED <<buffer, written, writeRet, lateWrites, pending>>
                 \/ /\ WriteCall(pending)
                    /\ pending' = <<>>
                    /\ lateWrites' = lateWrites + (IF flushes > 0 THEN 1 ELSE 0)
            ELSE /\ WriteCall(pending \o CentralDirectory)
                 /\ pending' = <<>>
                 /\ lateWrites' = lateWrites + (IF flushes > 0 THEN 1 ELSE 0)
         /\ failed' = IF closeErr /\ failed = "none" THEN "Close" ELSE failed
         /\ IF CloseAborts(closeErr)
            THEN /\ mainPc' = "exited"
                 /\ exitCode' = 1
                 /\ UNCHANGED deferred
            ELSE /\ deferred' = Tail(deferred)
                 /\ UNCHANGED <<mainPc, exitCode>>
    /\ UNCHANGED <<archive, flushes>>
    /\ UNCHANGED <<pc, offset, up, part1, part2, flushRet, sessions, dest, calls>>
    /\ UNCHANGED <<retryVars, manifestVars, readerVars>>

\* The deferred function calls ossWriter.Flush().
MainFlushCall ==
    /\ mainPc = "deferred"
    /\ deferred # <<>>
    /\ Head(deferred) = "Flush"
    /\ mainPc' = "Flush"
    /\ flushes' = flushes + 1
    /\ deferred' = Tail(deferred)
    /\ UNCHANGED <<exitCode, failed, pending, archive, lateWrites>>
    /\ UNCHANGED <<writerVars, retryVars, manifestVars, readerVars>>

\* Flush runs.
MainFlush ==
    /\ mainPc = "Flush"
    /\ (FlushInitiate \/ FlushCopy \/ FlushTail \/ FlushComplete)

\* if err != nil { perror("flush oss: %v", err) }
MainFlushReturn ==
    /\ mainPc = "Flush"
    /\ pc = "returned"
    /\ IF flushRet # Nil THEN Perror("Flush") ELSE Goto("deferred")
    /\ UNCHANGED <<writerVars, retryVars, manifestVars, readerVars>>

\* No deferred call is left: the process ends with status 0.
MainExit ==
    /\ mainPc = "deferred"
    /\ deferred = <<>>
    /\ mainPc' = "exited"
    /\ exitCode' = 0
    /\ UNCHANGED <<failed, pending, archive, deferred, flushes, lateWrites>>
    /\ UNCHANGED <<writerVars, retryVars, manifestVars, readerVars>>

----------------------------------------------------------------------------
(* The specifications.                                                      *)

Init == WriterInit /\ RetryIdle /\ ManifestIdle /\ ReaderIdle /\ MainIdle

Next == Write \/ FlushInitiate \/ FlushCopy \/ FlushTail \/ FlushComplete

Spec == Init /\ [][Next]_vars

InitRetry == WriterIdle /\ RetryIdle /\ ManifestIdle /\ ReaderIdle /\ MainIdle

NextRetry == RetryCall \/ RetryAttempt

SpecRetry == InitRetry /\ [][NextRetry]_vars

InitManifest == WriterIdle /\ RetryIdle /\ ManifestInit /\ ReaderIdle /\ MainIdle

NextManifest == ChangeManifest \/ Rerun

SpecManifest == InitManifest /\ [][NextManifest]_vars

InitReader == WriterIdle /\ RetryIdle /\ ManifestIdle /\ ReaderIdle /\ MainIdle

NextReader == ReadAt

SpecReader == InitReader /\ [][NextReader]_vars

\* main starts with the manifest the source archive holds and the cpid
\* content of the command line.
InitMain ==
    /\ WriterIdle /\ RetryIdle /\ ReaderIdle /\ MainInit
    /\ mpc = "start"
    /\ inManifest \in MainManifests
    /\ cpid \in CpidContents
    /\ mfFile = <<>>
    /\ sfFile = <<>>
    /\ rsaFile = <<>>
    /\ mResult = "none"
    /\ runs = 0

NextMain ==
    \/ MainNewReader \/ MainSize \/ MainZipReader
    \/ MainChangeManifest \/ MainChangeManifestReturn
    \/ MainNewWriter \/ MainCopyCPID \/ MainCopyMeta
    \/ MainClose \/ MainFlushCall \/ MainFlush \/ MainFlushReturn \/ MainExit

SpecMain == InitMain /\ [][NextMain]_vars

----------------------------------------------------------------------------
(* Properties of the Writer (Spec).                                         *)

\* The minimum-part-size threshold of the specification, scaled to the model.
MinPartSize == 2

Returned == pc = "returned"

\* The object Flush is to produce: the source prefix, then the written bytes.
Expected == SubSeq(Src, 1, offset) \o Flatten(written)

CallsOf(op) == SelectSeq(calls, LAMBDA c : c.op = op)

FailedCalls == {i \in DOMAIN calls : calls[i].err # Nil}

\* C1: whatever the store calls answered, the destination object is absent
\* or is exactly the source prefix [0, offset) followed by the written bytes,
\* never a part of it; a Flush that returned nil left it, and a Flush that
\* returned the error of an earlier call than the completion left none.
C1_AllOrNothing ==
    /\ dest.exists => dest.data = Expected
    /\ (Returned /\ flushRet = Nil) => dest.exists
    /\ (Returned /\ flushRet # Nil /\ calls[Len(calls)].op # "CompleteMultipartUpload")
           => ~dest.exists

C1_Witness ==
    /\ Returned
    /\ dest.exists
    /\ offset > 0
    /\ Len(written) = 2
    /\ Flatten(written) # <<>>

\* C2: CompleteMultipartUpload is issued at most once, and only after the
\* copy part and the tail part were uploaded successfully in its session;
\* never after a part upload failed.
C2_CompleteAfterParts ==
    \A i \in DOMAIN calls :
        calls[i].op = "CompleteMultipartUpload" =>
            /\ \A j \in DOMAIN calls :
                   calls[j].op = "CompleteMultipartUpload" => j = i
            /\ \E j \in 1..(i - 1) :
                   /\ calls[j].op = "UploadPartCopy"
                   /\ calls[j].err = Nil
                   /\ calls[j].up = calls[i].up
            /\ \E j \in 1..(i - 1) :
                   /\ calls[j].op = "UploadPart"
                   /\ calls[j].err = Nil
                   /\ calls[j].up = calls[i].up
            /\ \A j \in DOMAIN calls :
                   calls[j].op \in {"UploadPartCopy", "UploadPart"} =>
                       calls[j].err = Nil

C2_Witness ==
    \E i \in DOMAIN calls : calls[i].op = "CompleteMultipartUpload"

\* C3: when the copy part's upload fails, Flush returns that part's error
\* itself, not nil and not another value, and issues no further call.
C3_CopyErrorReturned ==
    \A i \in DOMAIN calls :
        (calls[i].op = "UploadPartCopy" /\ calls[i].err # Nil) =>
            /\ Returned
            /\ flushRet = calls[i].err
            /\ flushRet # Nil
            /\ i = Len(calls)

C3_Witness ==
    \E i \in DOMAIN calls : calls[i].op = "UploadPartCopy" /\ calls[i].err # Nil

\* C5: every store call of Flush is retried on a transient failure, so one
\* 503 service error, every other call succeeding, does not make Flush fail.
C5_TransientRetried ==
    (/\ Returned
     /\ Cardinality(FailedCalls) = 1
     /\ \A i \in FailedCalls : calls[i].err.svc /\ calls[i].err.status = 503)
        => flushRet = Nil

RECURSIVE Tiles(_, _, _)
\* Whether copy calls cs, the first numbered num, tile the bytes from start on
\* without gap or overlap, numbered contiguously; the answer is the end reached
\* (-1 when they do not).
Tiles(cs, start, num) ==
    IF cs = <<>> THEN start
    ELSE IF Head(cs).start = start /\ Head(cs).num = num /\ Head(cs).size > 0
         THEN Tiles(Tail(cs), start + Head(cs).size, num + 1)
         ELSE -1

\* C9: for an append offset above 0, the copy parts Flush issued tile
\* [0, offset) without gap or overlap, their sizes summing to offset, and are
\* numbered 1..N in source order.
C9_PartitionComplete ==
    (offset > 0 /\ pc \in {"tail", "complete", "returned"} /\ CallsOf("UploadPartCopy") # <<>>)
        => Tiles(CallsOf("UploadPartCopy"), 0, 1) = offset

C9_Witness ==
    /\ offset = SrcLen
    /\ pc = "tail"
    /\ Len(CallsOf("UploadPartCopy")) = 1

\* C10: at an append offset equal to the minimum part size Flush initiates no
\* multipart session (it puts the object in one call); one byte above it
\* takes the multipart path.
C10_ThresholdBoundary ==
    /\ (offset = MinPartSize /\ pc # "open") =>
           /\ CallsOf("InitiateMultipartUpload") = <<>>
           /\ CallsOf("PutObject") # <<>>
    /\ (offset = MinPartSize + 1 /\ pc # "open") =>
           CallsOf("InitiateMultipartUpload") # <<>>

----------------------------------------------------------------------------
(* Properties of StoreWithRetry (SpecRetry).                                *)

\* An error the wrapper is not to retry: no 503 status, no "503" in its text.
NonTransient(e) == e # Nil /\ ~(e.svc /\ e.status = 503) /\ ~e.has503

\* C4: an operation that fails with a transient error at every attempt is
\* invoked exactly 9 times, and the method then returns its error; the loop
\* never runs a tenth attempt.
C4_BackoffTermination ==
    /\ attempts <= 9
    /\ attempts = 9 => rpc = "returned"
    /\ (rpc = "returned" /\ allTransient) =>
           /\ attempts = 9
           /\ Len(sleeps) = 8
           /\ ret = lastOut
           /\ ret # Nil

C4_Witness == rpc = "returned" /\ allTransient /\ attempts = 9

\* C6: a non-transient error ends the method after one invocation of the
\* underlying operation, with no sleep, and is returned as it is; after the
\* budget is spent the caller gets the last underlying error, never nil.
C6_ErrorUnmodified ==
    rpc = "returned" =>
        /\ NonTransient(firstOut) =>
               /\ attempts = 1
               /\ sleeps = <<>>
               /\ ret = firstOut
        /\ NonTransient(lastOut) => ret = lastOut
        /\ (allTransient /\ attempts = max + 1) => (ret = lastOut /\ ret # Nil)

C6_Witness ==
    /\ rpc = "returned"
    /\ method = "UploadPartCopy"
    /\ NonTransient(firstOut)
    /\ ret = firstOut

----------------------------------------------------------------------------
(* Properties of changeManifest (SpecManifest).  The manifest is read here  *)
(* as the JAR format defines it, apart from the code: lines end with CRLF,  *)
(* sections end with an empty line, a line that begins with a space         *)
(* continues the line before it.                                            *)

\* The 0-based places where a line of m begins.
LineStarts(m) ==
    {0} \cup {i + 2 : i \in {j \in 0..(Len(m) - 2) : SubSeq(m, j + 1, j + 2) = CRLF}}

\* The places of the lines "Name: cpid" of m.
CpidLines(m) == {q \in LineStarts(m) : HasPrefix(From(m, q), cpidNameLine)}

\* Whether m has a cpid entry: its first line "Name: cpid" is followed by a
\* whole digest line (and no other line merely ends with "Name: cpid").
HasCpidEntry(m) ==
    /\ CpidLines(m) # {}
    /\ \A j \in 0..(Len(m) - Len(cpidNameLine)) :
           HasPrefix(From(m, j), cpidNameLine) => j \in LineStarts(m)
    /\ LET q == CHOOSE x \in CpidLines(m) : \A y \in CpidLines(m) : x <= y
           rest == From(m, q + Len(cpidNameLine))
       IN HasPrefix(rest, DigestPrefix) /\ Index(rest, CRLF) >= 0

\* m with the digest line of its cpid entry replaced by the one of digest.
WithCpidDigest(m, digest) ==
    LET q == CHOOSE x \in CpidLines(m) : \A y \in CpidLines(m) : x <= y
        rest == From(m, q + Len(cpidNameLine))
    IN SubSeq(m, 1, q + Len(cpidNameLine))
           \o DigestPrefix \o digest \o CRLF
           \o From(rest, Index(rest, CRLF) + 2)

\* C7: when the manifest read has a cpid entry whose digest is not the one of
\* the new cpid content, MANIFEST.MF is written as the manifest read with that
\* entry's digest line replaced and no other byte added, removed or changed.
C7_ReplaceInPlace ==
    (/\ mpc = "done"
     /\ HasCpidEntry(inManifest)
     /\ WithCpidDigest(inManifest, sha1Sum(cpid)) # inManifest)
        => /\ mResult # "malformed"
           /\ mfFile = WithCpidDigest(inManifest, sha1Sum(cpid))

RECURSIVE Group(_, _, _)
\* The sections of a file given as its lines: the runs of lines between
\* empty lines.
Group(lines, cur, acc) ==
    IF lines = <<>> THEN (IF cur = <<>> THEN acc ELSE Append(acc, cur))
    ELSE IF Head(lines) = <<>>
         THEN Group(Tail(lines), <<>>, IF cur = <<>> THEN acc ELSE Append(acc, cur))
         ELSE Group(Tail(lines), Append(cur, Head(lines)), acc)

Sections(file) == Group(Split(file, CRLF), <<>>, <<>>)

\* The bytes of a section in its file: its lines as they stand, and the
\* empty line that ends it.
Raw(sec) == Flatten([j \in DOMAIN sec |-> sec[j] \o CRLF]) \o CRLF

RECURSIVE Unfold(_, _)
\* The lines of a section with every continuation line joined to its line.
Unfold(sec, acc) ==
    IF sec = <<>> THEN acc
    ELSE IF acc # <<>> /\ HasPrefix(Head(sec), S(<<" ">>))
         THEN Unfold(Tail(sec),
                     [acc EXCEPT ![Len(acc)] = @ \o From(Head(sec), 1)])
         ELSE Unfold(Tail(sec), Append(acc, Head(sec)))

IsEntry(sec) == HasPrefix(sec[1], NamePrefix)

\* An entry of a name line and a digest line, either possibly folded.
IsPlainEntry(sec) ==
    /\ IsEntry(sec)
    /\ Len(Unfold(sec, <<>>)) = 2
    /\ HasPrefix(Unfold(sec, <<>>)[2], DigestPrefix)

\* A manifest of whole sections, each entry a name line and a digest line.
WellFormed(file) ==
    LET secs == Sections(file)
    IN /\ Flatten([k \in DOMAIN secs |-> Raw(secs[k])]) = file
       /\ \A k \in DOMAIN secs : IsEntry(secs[k]) => IsPlainEntry(secs[k])

\* What .SF is to hold for a manifest: for each entry, in order, its name
\* and the digest of its bytes in the manifest.
EntriesDigested(file) ==
    LET es == SelectSeq(Sections(file), IsEntry)
    IN [k \in DOMAIN es |->
          [name |-> Unfold(es[k], <<>>)[1], digest |-> sha1Sum(Raw(es[k]))]]

\* What .SF holds: for each entry, in order, its name and its digest.
EntriesSigned(file) ==
    LET es == SelectSeq(Sections(file), IsEntry)
    IN [k \in DOMAIN es |->
          [name |-> Unfold(es[k], <<>>)[1],
           digest |-> From(Unfold(es[k], <<>>)[2], Len(DigestPrefix))]]

\* C8: for every entry of the MANIFEST.MF written, .SF holds one entry of the
\* same name, in the same order, whose digest is the digest of the entry's
\* bytes as they stand in MANIFEST.MF, folded name lines included.
C8_EntryDigests ==
    (mResult \in {"ok", "signfail"} /\ WellFormed(mfFile))
        => EntriesSigned(sfFile) = EntriesDigested(mfFile)

----------------------------------------------------------------------------
(* Properties of main (SpecMain).                                           *)

\* The steps of main that come before the destination is finalized.
StepsBeforeFinal ==
    { "NewReader", "Size", "zip.NewReader", "changeManifest", "NewWriter",
      "copyCPID", "copyMeta", "Close" }

\* C11: when a step of main before finalization failed (creating the reader,
\* Size, opening the zip, changeManifest, creating the writer, copyCPID,
\* copyMeta, closing the zip appender), Flush issues no
\* CompleteMultipartUpload, no destination object exists, and the process
\* does not end with status 0.
C11_FailureAbortsBeforeFinal ==
    failed \in StepsBeforeFinal =>
        /\ CallsOf("CompleteMultipartUpload") = <<>>
        /\ ~dest.exists
        /\ mainPc = "exited" => exitCode # 0

\* The same, for the steps whose error main tests.
TestedStepsAbort ==
    failed \in StepsBeforeFinal \ {"Close"} =>
        /\ mainPc = "exited"
        /\ exitCode # 0
        /\ calls = <<>>
        /\ ~dest.exists

\* C12: on a run of main that ends with status 0, Flush was invoked exactly
\* once and every Write call on the Writer, those of closing the zip appender
\* included, was made before Flush started.
C12_WritesBeforeFlush ==
    exitCode = 0 => (flushes = 1 /\ lateWrites = 0)

C12_Witness ==
    /\ exitCode = 0
    /\ Len(written) = 2
    /\ written[1] = EntryBytes(1)
    /\ written[2] = EntryBytes(2) \o EntryBytes(3) \o EntryBytes(4) \o CentralDirectory
    /\ dest.exists

----------------------------------------------------------------------------
(* Further properties of StoreWithRetry (SpecRetry).                        *)

\* C13: the delays retry slept form a doubling sequence whose first element
\* is the initial delay of 50ms (50, 100, 200, ...), and a method whose
\* every attempt failed with a transient error has slept exactly 8 times
\* when it returns.
C13_DoublingFromInitial ==
    /\ sleeps # <<>> => sleeps[1] = InitialDelay
    /\ \A k \in 2..Len(sleeps) : sleeps[k] = 2 * sleeps[k - 1]
    /\ (rpc = "returned" /\ allTransient) => Len(sleeps) = max

\* What the code does: the same sequence, begun at twice the initial delay.
SleepsDoubleFromTwiceInitial ==
    /\ sleeps # <<>> => sleeps[1] = 2 * InitialDelay
    /\ \A k \in 2..Len(sleeps) : sleeps[k] = 2 * sleeps[k - 1]
    /\ (rpc = "returned" /\ allTransient) => Len(sleeps) = max

----------------------------------------------------------------------------
(* Further properties of the Writer (Spec).                                 *)

\* The copy-chunk size of the specification, scaled to the model.
ChunkSize == 1

\* The number of copy parts the specification gives a prefix of off bytes:
\* floor(off / ChunkSize), raised to 1 if zero.
ChunkCount(off) == IF off \div ChunkSize = 0 THEN 1 ELSE off \div ChunkSize

\* C14: once the copy phase of Flush is over, Flush has issued
\* floor(offset / ChunkSize) copy parts (1 if that is zero), and the
\* completion lists that many parts and the tail part: a prefix of 4 chunks
\* gives 4 copy parts and 5 parts in all.
C14_CopyPartCount ==
    /\ pc \in {"tail", "complete"} =>
           Len(CallsOf("UploadPartCopy")) = ChunkCount(offset)
    /\ \A i \in DOMAIN calls :
           calls[i].op = "CompleteMultipartUpload" =>
               calls[i].num = ChunkCount(offset) + 1

\* The part numbers a sequence of part uploads carried.
PartNumbers(cs) == {cs[k].num : k \in DOMAIN cs}

\* C15: Flush uploads the buffer as one part, numbered one more than the
\* number of copy parts, whose content is the whole buffer and whose declared
\* size is the buffer's length; the list passed to CompleteMultipartUpload
\* names the copy parts and that tail part, each once.
C15_TailPartAndList ==
    LET copies == CallsOf("UploadPartCopy")
        tails == CallsOf("UploadPart")
    IN /\ Len(tails) <= 1
       /\ \A k \in DOMAIN tails :
              /\ tails[k].num = Len(copies) + 1
              /\ tails[k].data = Flatten(written)
              /\ tails[k].size = Len(Flatten(written))
       /\ \A i \in DOMAIN calls :
              calls[i].op = "CompleteMultipartUpload" =>
                  /\ Len(tails) = 1
                  /\ {calls[i].data[k] : k \in DOMAIN calls[i].data}
                         = PartNumbers(copies) \cup PartNumbers(tails)
                  /\ Len(calls[i].data) = Len(copies) + 1
                  /\ Cardinality(PartNumbers(copies) \cup PartNumbers(tails))
                         = Len(copies) + 1

C15_Witness ==
    /\ Returned
    /\ flushRet = Nil
    /\ offset = SrcLen
    /\ Len(Flatten(written)) = 3
    /\ calls[Len(calls)].data = <<1, 2>>

\* C16: every Write call returned the length of its input and a nil error,
\* and the buffer is the concatenation of all the inputs in call order.
C16_WriteAppends ==
    /\ buffer = Flatten(written)
    /\ written # <<>> =>
           writeRet = [n |-> Len(written[Len(written)]), err |-> Nil]

C16_Witness ==
    /\ pc = "open"
    /\ written = << <<102, 103>>, <<101>> >>
    /\ buffer = <<102, 103, 101>>
    /\ writeRet.n = 1

----------------------------------------------------------------------------
(* Further properties of changeManifest (SpecManifest).                     *)

\* m followed by a new cpid entry: the name line, the digest line of digest
\* and an empty line.
WithCpidAppended(m, digest) ==
    m \o NamePrefix \o CPIDPath \o CRLF \o DigestPrefix \o digest \o CRLF \o CRLF

AppendWhenNoOccurrence ==
    (mpc = "done" /\ Index(inManifest, cpidNameLine) < 0)
        => /\ mResult # "malformed"
           /\ mfFile = WithCpidAppended(inManifest, sha1Sum(cpid))

RECURSIVE MainSectionOf(_)
\* The lines of a file's first section: those before its first empty line.
MainSectionOf(lines) ==
    IF lines = <<>> \/ Head(lines) = <<>> THEN <<>>
    ELSE <<Head(lines)>> \o MainSectionOf(Tail(lines))

\* The manifest digests the header of a .SF file declares.
DeclaredManifestDigests(sf) ==
    LET hs == SelectSeq(MainSectionOf(Split(sf, CRLF)),
                        LAMBDA l : HasPrefix(l, ManifestDigestPrefix))
    IN [k \in DOMAIN hs |-> From(hs[k], Len(ManifestDigestPrefix))]

\* C18: once changeManifest has written MANIFEST.MF and .SF, whether it
\* replaced the cpid entry or appended it, the header of .SF declares one
\* manifest digest, the digest of the bytes of MANIFEST.MF.
C18_ManifestDigest ==
    (mpc = "done" /\ mResult # "malformed")
        => DeclaredManifestDigests(sfFile) = <<sha1Sum(mfFile)>>

C18_Witness ==
    /\ mResult = "ok"
    /\ Index(inManifest, cpidNameLine) > 0
    /\ Len(mfFile) = Len(inManifest)
    /\ mfFile # inManifest
    /\ DeclaredManifestDigests(sfFile) = <<sha1Sum(mfFile)>>

----------------------------------------------------------------------------
(* Properties of the Reader (SpecReader).                                   *)

\* C19: ReadAt(buf, off) asks the store for the inclusive byte range
\* [off, off + len(buf) - 1]; it returns (len(buf), nil) only with buf filled
\* with exactly the bytes of that range; when the store answered with fewer
\* bytes than len(buf) it returns 0 and an error.
C19_ReadAtExact ==
    rdDone > 0 =>
        /\ rdRange = [lo |-> rdReq.off, hi |-> rdReq.off + rdReq.len - 1]
        /\ rdRet.err = Nil =>
               /\ rdRet.n = rdReq.len
               /\ Len(rdBuf) = rdReq.len
               /\ \A i \in 1..rdReq.len :
                      /\ rdReq.off + i <= SrcLen
                      /\ rdBuf[i] = Src[rdReq.off + i]
        /\ (rdBody.err = Nil /\ Len(rdBody.data) < rdReq.len) =>
               /\ rdRet.err # Nil
               /\ rdRet.n = 0

\* A short read: the store answered one byte of the two asked for.
C19_Witness ==
    /\ rdDone > 0
    /\ rdReq = [off |-> 1, len |-> 2]
    /\ rdBody = [err |-> Nil, data |-> <<2>>, readErr |-> Nil]
    /\ rdRet.n = 0
    /\ rdRet.err # Nil

----------------------------------------------------------------------------
(* Further properties of main (SpecMain).                                   *)

\* The message a signature block was made over.
SignedMessage(rsa) == rsa[1].h

\* C20: the bytes copyMeta puts in the archive as META-INF/MANIFEST.MF are
\* the bytes whose digest the .SF header declares, and the bytes it puts
\* there as META-INF/<cert>.SF are the whole generated .SF file, which is the
\* message signSF signed.
C20_ArchivedAsSigned ==
    \A i \in DOMAIN archive :
        /\ archive[i].name = ManifestPath =>
               /\ archive[i].data = mfFile
               /\ DeclaredManifestDigests(sfFile) = <<sha1Sum(archive[i].data)>>
        /\ archive[i].name = SFPath =>
               /\ archive[i].data = sfFile
               /\ SignedMessage(rsaFile) = archive[i].data

C20_Witness ==
    /\ exitCode = 0
    /\ dest.exists
    /\ Len(archive) = 4
    /\ archive[2].name = ManifestPath
    /\ archive[3].name = SFPath
    /\ Len(archive[3].data) > Len(SFHeader)
    /\ archive[2].data # inManifest
    /\ Index(inManifest, cpidNameLine) > 0

----------------------------------------------------------------------------
(* Further properties of StoreWithRetry.retry (SpecRetry).                  *)

\* An error the specification calls transient: a service error with status
\* 503, or one whose text contains "503".
Transient(e) == e # Nil /\ ((e.svc /\ e.status = 503) \/ e.has503)

\* C21: retry goes on to another attempt exactly after a transient error (a
\* service error with status 503, or an error whose text contains "503")
\* while the budget lasts; errors detected either way are counted in the one
\* budget; any other error returns after that attempt.
C21_TransientIff ==
    /\ (rpc = "loop" /\ attempts > 0) => Transient(lastOut)
    /\ (rpc = "returned" /\ Transient(lastOut)) => (bI = max /\ attempts = max + 1)
    /\ rpc = "loop" => attempts = bI
    /\ bI = Len(sleeps)
    /\ bI <= max

\* A text-only 503 retried after a service 503, both counted.
C21_Witness ==
    /\ rpc = "loop"
    /\ attempts = 2
    /\ firstOut.svc /\ firstOut.status = 503
    /\ ~lastOut.svc /\ lastOut.has503
    /\ bI = 2

----------------------------------------------------------------------------
(* Further properties of the .SF file (SpecManifest).                       *)

\* C22: every line of the .SF file changeManifest wrote is at most LineWidth
\* (70) characters long before its CRLF, and a line that begins with a space
\* (the continuation of a folded name) follows a line of LineWidth
\* characters, whatever the length of the name.
C22_LinesFolded ==
    (mpc = "done" /\ mResult # "malformed") =>
        LET lines == Split(sfFile, CRLF)
        IN \A k \in DOMAIN lines :
               /\ Len(lines[k]) <= LineWidth
               /\ HasPrefix(lines[k], S(<<" ">>)) =>
                      (k > 1 /\ Len(lines[k - 1]) = LineWidth)

\* The same for manifests whose name lines, unfolded, are shorter than twice
\* LineWidth.
LinesFoldedBelowTwice ==
    (mpc = "done" /\ mResult # "malformed" /\ Index(inManifest, EntryWide) < 0) =>
        LET lines == Split(sfFile, CRLF)
        IN \A k \in DOMAIN lines : Len(lines[k]) <= LineWidth

\* C23: when changeManifest is run again on the manifest it wrote, with the
\* same cpid content, it writes that manifest back byte for byte, whatever
\* the first manifest was (the empty one included), and the manifest never
\* holds more than one line "Name: cpid".
C23_RerunIdempotent ==
    /\ (mpc = "done" /\ runs >= 2) =>
           /\ mResult # "malformed"
           /\ mfFile = inManifest
    /\ (mpc = "done" /\ runs >= 2 /\ mResult # "malformed"
           /\ Cardinality(CpidLines(inManifest)) <= 1)
           => Cardinality(CpidLines(mfFile)) <= 1

\* The same for a rerun on a manifest whose cpid entry is found past its
\* first byte.
RerunIdempotentPastStart ==
    (mpc = "done" /\ runs >= 2 /\ Index(inManifest, cpidNameLine) > 0)
        => /\ mResult # "malformed"
           /\ mfFile = inManifest

\* C24: changeManifest never reads a line past the last one of the manifest
\* split at CRLF: whatever the manifest, a name line that is its last line or
\* is followed only by a continuation line included, the run ends with the
\* files written or with a returned error, never with an out-of-range panic.
C24_NoOutOfRange ==
    mpc = "done" => mResult \in {"ok", "malformed", "signfail"}

\* The same for a manifest that ends with CRLF, so that no name line is the
\* last element of the split.
NoOutOfRangeWholeLines ==
    (mpc = "done" /\ Len(inManifest) >= 2
        /\ From(inManifest, Len(inManifest) - 2) = CRLF)
        => mResult \in {"ok", "malformed", "signfail"}

\* C25: when retry goes on to another attempt of PutObject or UploadPart,
\* the caller's reader is unread, so that the attempt transmits the whole
\* payload as the first did; the part or object the successful attempt left
\* holds all of it.
C25_PayloadResent ==
    method \in ReaderMethods =>
        /\ (rpc = "loop" /\ attempts > 0) => consumed = 0
        /\ (rpc = "returned" /\ ret = Nil) =>
               (sent[Len(sent)] = Payload /\ stored = [exists |-> TRUE, data |-> Payload])

\* The same for a call that needed no retry.
PayloadSentOnce ==
    (method \in ReaderMethods /\ rpc = "returned" /\ ret = Nil /\ attempts = 1)
        => stored = [exists |-> TRUE, data |-> Payload]

====
